---------------------------- MODULE Spec2Model ----------------------------
(***************************************************************************)
(* Cookbook: a recipe-management REST backend (Django REST framework).     *)
(*                                                                         *)
(* The model is the database (four owned tables and three many-to-many     *)
(* association tables) together with the request that the server has just  *)
(* answered.  One action per HTTP handler of app/recipe/views.py, with the *)
(* serializer code of app/recipe/serializers.py that the handler runs.     *)
(*                                                                         *)
(* Library behaviour relied upon:                                          *)
(*  - Manager.get_or_create returns the single row matching its keywords,    *)
(*    inserts one when none matches, and raises MultipleObjectsReturned    *)
(*    when more than one matches.  No handler catches it: the response is  *)
(*    500.  The project sets no ATOMIC_REQUESTS, so every statement is     *)
(*    committed on its own and the writes made before the exception stay.  *)
(*  - GenericAPIView.get_object() looks the identifier up in               *)
(*    get_queryset() and answers 404 when it is not there.                 *)
(*  - Authentication and permission checks run before the handler; a       *)
(*    request without a valid token is answered 401.                       *)
(*  - Identifiers come from a sequence and are never reused.               *)
(***************************************************************************)
EXTENDS Integers, Sequences, FiniteSets, TLC

VARIABLES
    tags,                \* Tag rows:        id -> [user, name]
    ingredients,         \* Ingredient rows: id -> [user, name]
    nutrients,           \* Nutrient rows:   id -> [user, name, grams]
    recipes,             \* Recipe rows:     id -> [user, title]
    recipeTags,          \* Recipe.tags:            set of <<recipe id, tag id>>
    recipeIngredients,   \* Recipe.ingredients:     set of <<recipe id, ingredient id>>
    ingredientNutrients, \* Ingredient.nutrients:   set of <<ingredient id, nutrient id>>
    nextId,              \* next identifier of each table's sequence
    rowLimit,            \* rows the run may insert: [total, recipes]
    users,               \* User rows:       id -> [email, password, name]
    authtoken,           \* Token rows: the ids of the users that hold a token
    images,              \* the image paths generated so far, in order
    workers,             \* the requests that server workers handle concurrently
    http                 \* the request just answered and its response, or Idle

db == <<tags, ingredients, nutrients, recipes, recipeTags, recipeIngredients,
        ingredientNutrients, nextId, rowLimit, users, authtoken, images,
        workers>>
vars == <<tags, ingredients, nutrients, recipes, recipeTags, recipeIngredients,
          ingredientNutrients, nextId, rowLimit, users, authtoken, images, workers,
          http>>

----------------------------------------------------------------------------
(* Bounds of the model *)

\* rows ever inserted into the Tag table
MaxTags == 2
\* rows ever inserted into the Ingredient table
MaxIngredients == 2
\* rows ever inserted into the Nutrient table
MaxNutrients == 2
\* rows ever inserted into the Recipe table
MaxRecipes == 1
\* mappings in one nested child list of a payload
MaxLen == 2
\* rows ever inserted, all tables together, with every endpoint in use
MaxRows == 3
\* rows ever inserted, all tables together, with the recipe endpoints in use
MaxRecipeApiRows == 4
\* rows ever inserted, all tables together, with malformed payloads in use
MaxPayloadRows == 3
\* rows ever inserted into the Recipe table, with the listing endpoints in use
MaxListedRecipes == 2
\* rows ever inserted, all tables together, with the listing endpoints in use
MaxListedRows == 3

\* rows ever inserted into the User table
MaxUsers == 2
\* image paths ever generated
MaxUploads == 2
\* rows ever inserted into the Recipe table, with concurrent requests
MaxRacingRecipes == 2
\* rows ever inserted, all tables together, with concurrent requests
MaxRacingRows == 4
\* rows ever inserted into the Recipe table, with two users reconciling
MaxOwnedRecipes == 2
\* rows ever inserted, all tables together, with two users reconciling
MaxOwnedRows == 4

Users == {"u1", "u2"}
\* a request that carries no valid token
NoToken == "anonymous"
Tokens == Users \cup {NoToken}
Names == {"a", "b"}
Titles == {"t1", "t2"}
GramValues == {1, 2}

----------------------------------------------------------------------------
(* Payloads *)

\* sequences over S of length at most n
SeqsUpTo(S, n) == UNION {[1..k -> S] : k \in 0..n}

\* a nested tag or ingredient mapping is {name}
NameLists == SeqsUpTo(Names, MaxLen)
\* a nested nutrient mapping is {name, grams}
NutrientMappings == [name : Names, grams : GramValues]
NutrientLists == SeqsUpTo(NutrientMappings, MaxLen)

\* a nested child list that the payload may leave out
Absent == [present |-> FALSE, value |-> <<>>]
Given(v) == [present |-> TRUE, value |-> v]
Optional(S) == {Absent} \cup {Given(v) : v \in S}
\* a scalar field that the payload leaves out
NoValue == "-"

\* nested lists in which a mapping may lack its name
MalformedNameLists(names) == SeqsUpTo(names \cup {NoValue}, MaxLen)
MalformedNutrientLists(names, grams) ==
    SeqsUpTo([name : names \cup {NoValue}, grams : grams], MaxLen)

\* validated_data.pop(field, default)
Pop(field, default) == IF field.present THEN field.value ELSE default

----------------------------------------------------------------------------
(* The request being answered *)

NoData == {}
\* data: the identifiers of the rows in the response body; results: the same rows
\* in the order a list response gives them; returned: the nested children of the
\* one row in the body, in the order the body gives them; user: a `user` field
\* in the payload; email, password: the credentials in the payload, as sent;
\* token: the key in the body of a token response, 0 when it has none;
\* bearer: the key a request to the user API presents, 0 when it presents none;
\* fields: the fields a PATCH to the user API carries
Idle == [op |-> "idle", tok |-> NoToken, id |-> 0, status |-> 0, data |-> NoData,
         results |-> <<>>,
         returned |-> [tags |-> <<>>, ingredients |-> <<>>, nutrients |-> <<>>],
         user |-> NoValue,
         tags |-> Absent, ingredients |-> Absent, nutrients |-> Absent,
         name |-> NoValue, title |-> NoValue, grams |-> {},
         partial |-> FALSE,
         query |-> [tags |-> {}, ingredients |-> {}, assigned_only |-> FALSE],
         email |-> <<>>, password |-> <<>>, token |-> 0, bearer |-> 0,
         fields |-> {}]

----------------------------------------------------------------------------
(* The object-relational mapper *)

EmptyTable == [i \in {} |-> NoValue]

\* Model.objects.create(**row): insert under the next identifier
Insert(table, id, row) == table @@ (id :> row)

\* instance.delete(): the row goes, and so does every association row naming it
Delete(table, id) == [i \in DOMAIN table \ {id} |-> table[i]]
WithoutLeft(assoc, id) == {p \in assoc : p[1] # id}
WithoutRight(assoc, id) == {p \in assoc : p[2] # id}

\* instance.<relation>.clear()
Clear(assoc, parent) == WithoutLeft(assoc, parent)
\* instance.<relation>.add(obj): a set, adding twice is adding once
Add(assoc, parent, child) == assoc \cup {<<parent, child>>}
\* the children associated with a parent
Related(assoc, parent) == {p[2] : p \in {q \in assoc : q[1] = parent}}

\* queryset.filter(**kw): identifiers of the rows whose fields equal the keywords
Filter(table, kw) == {i \in DOMAIN table : \A f \in DOMAIN kw : table[i][f] = kw[f]}

\* a field the keywords of get_or_create leave out takes the default of the
\* model: name is a CharField, its default is the empty string
WithDefaults(kw) == kw @@ [name |-> ""]

\* the rows of a result, whatever their order
Rows(queryset) == {queryset[i] : i \in 1..Len(queryset)}
\* the orders in which a query without ORDER BY may return rows
Unordered(ids) ==
    {s \in [1..Cardinality(ids) -> ids] :
        \A i, j \in 1..Cardinality(ids) : i # j => s[i] # s[j]}

\* the database's collation of names: position in the alphabet
Alphabet == <<"", "a", "b">>
Collate(name) == CHOOSE i \in 1..Len(Alphabet) : Alphabet[i] = name

\* queryset.order_by('-name'): rows of equal name come in any order
OrderByNameDescending(table, ids) ==
    {s \in Unordered(ids) :
        \A i \in 1..(Len(s) - 1) :
            Collate(table[s[i]].name) >= Collate(table[s[i + 1]].name)}

\* joined rows from the smallest recipe identifier to the largest
RECURSIVE OrderByIdAscending(_)
OrderByIdAscending(rows) ==
    IF rows = {} THEN <<>>
    ELSE LET m == CHOOSE x \in rows : \A y \in rows : x[1] <= y[1]
         IN  <<m[1]>> \o OrderByIdAscending(rows \ {m})

\* queryset.order_by('-id') over joined rows <<recipe, tag, ingredient>>: the
\* recipe identifier of every row, largest first
RECURSIVE OrderByIdDescending(_)
OrderByIdDescending(rows) ==
    IF rows = {} THEN <<>>
    ELSE LET m == CHOOSE x \in rows : \A y \in rows : y[1] <= x[1]
         IN  <<m[1]>> \o OrderByIdDescending(rows \ {m})

\* queryset.distinct(): a row that came before is dropped
Distinct(queryset) ==
    LET first(i) == \A j \in 1..(i - 1) : queryset[j] # queryset[i]
        RECURSIVE From(_)
        From(i) == IF i > Len(queryset) THEN <<>>
                   ELSE IF first(i) THEN <<queryset[i]>> \o From(i + 1)
                   ELSE From(i + 1)
    IN  From(1)

\* a manager that inserts a row for the keywords without looking one up
GetOrCreate_without_lookup(table, next, kw) ==
    [rows |-> Insert(table, next, WithDefaults(kw)), next |-> next + 1,
     obj |-> next, raised |-> FALSE]

\* a manager that looks the row up in the rows of every user
GetOrCreate_of_any_user(table, next, kw) ==
    LET found == Filter(table, [f \in DOMAIN kw \ {"user"} |-> kw[f]]) IN
    IF Cardinality(found) > 1
    THEN [rows |-> table, next |-> next, obj |-> 0, raised |-> TRUE]
    ELSE IF found = {}
    THEN [rows |-> Insert(table, next, WithDefaults(kw)), next |-> next + 1,
          obj |-> next, raised |-> FALSE]
    ELSE [rows |-> table, next |-> next, obj |-> CHOOSE i \in found : TRUE,
          raised |-> FALSE]

\* Manager.get_or_create with keywords kw
GetOrCreate(table, next, kw) ==
    LET found == Filter(table, kw) IN
    IF Cardinality(found) > 1
    THEN [rows |-> table, next |-> next, obj |-> 0, raised |-> TRUE]
    ELSE IF found = {}
    THEN [rows |-> Insert(table, next, WithDefaults(kw)), next |-> next + 1,
          obj |-> next, raised |-> FALSE]
    ELSE [rows |-> table, next |-> next, obj |-> CHOOSE i \in found : TRUE,
          raised |-> FALSE]

\* for x in xs: obj, created = get_or_create(**kw(x)); parent.<relation>.add(obj)
\* from the i-th mapping on; stops at the first exception
RECURSIVE ForEach(_, _, _, _, _, _)
ForEach(table, next, assoc, parent, kws, i) ==
    IF i > Len(kws)
    THEN [rows |-> table, next |-> next, assoc |-> assoc, raised |-> FALSE]
    ELSE LET r == GetOrCreate(table, next, kws[i]) IN
         IF r.raised
         THEN [rows |-> table, next |-> next, assoc |-> assoc, raised |-> TRUE]
         ELSE ForEach(r.rows, r.next, Add(assoc, parent, r.obj), parent, kws, i + 1)

\* a reconciliation that did not run
Untouched(table, next, assoc) ==
    [rows |-> table, next |-> next, assoc |-> assoc, raised |-> FALSE]

----------------------------------------------------------------------------
(* app/recipe/serializers.py *)

\* the keywords of get_or_create for a nested tag or ingredient mapping:
\* user=auth_user and the validated mapping, which has no name when the payload
\* gave none and validation let it pass
NameKeywords(auth_user, name) ==
    IF name = NoValue THEN [user |-> auth_user]
    ELSE [user |-> auth_user, name |-> name]
\* the keywords of get_or_create for a nested nutrient mapping
NutrientKeywords(auth_user, nutrient) ==
    IF nutrient.name = NoValue THEN [user |-> auth_user, grams |-> nutrient.grams]
    ELSE [user |-> auth_user, name |-> nutrient.name, grams |-> nutrient.grams]

\* RecipeSerializer._get_or_create_tags
RecipeSerializer_get_or_create_tags(recipe, tagList, auth_user, table, next, assoc) ==
    ForEach(table, next, assoc, recipe,
            [i \in 1..Len(tagList) |-> NameKeywords(auth_user, tagList[i])], 1)

\* RecipeSerializer._get_or_create_ingredients
RecipeSerializer_get_or_create_ingredients(recipe, ingredientList, auth_user, table, next, assoc) ==
    ForEach(table, next, assoc, recipe,
            [i \in 1..Len(ingredientList) |->
                NameKeywords(auth_user, ingredientList[i])], 1)

\* IngredientSerializer._get_or_create_nutrients
IngredientSerializer_get_or_create_nutrients(ingredient, nutrientList, auth_user, table, next, assoc) ==
    ForEach(table, next, assoc, ingredient,
            [i \in 1..Len(nutrientList) |->
                NutrientKeywords(auth_user, nutrientList[i])], 1)


\* the sequences have room for the rows a handler inserted
Fits(next) ==
    /\ (next.recipe - 1) + (next.tag - 1) + (next.ingredient - 1)
          + (next.nutrient - 1) <= rowLimit.total
    /\ next.recipe <= rowLimit.recipes + 1
    /\ next.tag <= MaxTags + 1
    /\ next.ingredient <= MaxIngredients + 1
    /\ next.nutrient <= MaxNutrients + 1

\* the database after a serializer ran: every table, and whether it raised
Database ==
    [tags |-> tags, ingredients |-> ingredients, nutrients |-> nutrients,
     recipes |-> recipes, recipeTags |-> recipeTags,
     recipeIngredients |-> recipeIngredients,
     ingredientNutrients |-> ingredientNutrients, nextId |-> nextId,
     raised |-> FALSE]

\* run_validation of a nested list of {name} mappings: name is required, but a
\* required field that is missing is skipped, not reported, when the root
\* serializer is partial (PATCH)
TagSerializer_is_valid(tagList, partial) ==
    partial \/ \A i \in 1..Len(tagList) : tagList[i] # NoValue
\* run_validation of a nested list of {name, grams} mappings
NutrientSerializer_is_valid(nutrientList, partial) ==
    partial \/ \A i \in 1..Len(nutrientList) : nutrientList[i].name # NoValue

\* a serializer whose fields let a payload set the owner
RecipeSerializer_Meta_fields_and_user ==
    {"title", "tags", "ingredients", "user"}

\* RecipeSerializer.Meta.fields, as far as the model has them
RecipeSerializer_Meta_fields == {"title", "tags", "ingredients"}

\* validated_data: the scalar fields of the payload that are serializer fields
RecipeSerializer_validated_data(title, user) ==
    [title |-> IF "title" \in RecipeSerializer_Meta_fields THEN title ELSE NoValue,
     user |-> IF "user" \in RecipeSerializer_Meta_fields THEN user ELSE NoValue]

\* for attr, value in validated_data.items(): setattr(instance, attr, value)
SetAttrs(row, validated_data) ==
    [f \in DOMAIN row |->
        IF f \in DOMAIN validated_data /\ validated_data[f] # NoValue
        THEN validated_data[f] ELSE row[f]]

\* RecipeSerializer.create, with validated_data = {user, title, tags?, ingredients?}
RecipeSerializer_create(auth_user, title, tagField, ingredientField) ==
    LET recipe == nextId.recipe
        t == RecipeSerializer_get_or_create_tags(
                 recipe, Pop(tagField, <<>>), auth_user,
                 tags, nextId.tag, recipeTags)
        g == IF t.raised
             THEN Untouched(ingredients, nextId.ingredient, recipeIngredients)
             ELSE RecipeSerializer_get_or_create_ingredients(
                      recipe, Pop(ingredientField, <<>>), auth_user,
                      ingredients, nextId.ingredient, recipeIngredients)
    IN  [Database EXCEPT
            !.recipes = Insert(recipes, recipe, [user |-> auth_user, title |-> title]),
            !.tags = t.rows, !.recipeTags = t.assoc,
            !.ingredients = g.rows, !.recipeIngredients = g.assoc,
            !.nextId = [nextId EXCEPT !.recipe = recipe + 1, !.tag = t.next,
                                      !.ingredient = g.next],
            !.raised = t.raised \/ g.raised]

\* RecipeSerializer.update
RecipeSerializer_update(instance, auth_user, validated_data, tagField, ingredientField) ==
    LET t == IF tagField.present
             THEN RecipeSerializer_get_or_create_tags(
                      instance, tagField.value, auth_user,
                      tags, nextId.tag, Clear(recipeTags, instance))
             ELSE Untouched(tags, nextId.tag, recipeTags)
        g == IF ~t.raised /\ ingredientField.present
             THEN RecipeSerializer_get_or_create_ingredients(
                      instance, ingredientField.value, auth_user,
                      ingredients, nextId.ingredient,
                      Clear(recipeIngredients, instance))
             ELSE Untouched(ingredients, nextId.ingredient, recipeIngredients)
        raised == t.raised \/ g.raised
    IN  [Database EXCEPT
            !.recipes = IF raised THEN recipes
                        ELSE [recipes EXCEPT ![instance] = SetAttrs(@, validated_data)],
            !.tags = t.rows, !.recipeTags = t.assoc,
            !.ingredients = g.rows, !.recipeIngredients = g.assoc,
            !.nextId = [nextId EXCEPT !.tag = t.next, !.ingredient = g.next],
            !.raised = raised]

\* IngredientSerializer.create, with validated_data = {user, name, nutrients?}
IngredientSerializer_create(auth_user, name, nutrientField) ==
    LET ingredient == nextId.ingredient
        n == IngredientSerializer_get_or_create_nutrients(
                 ingredient, Pop(nutrientField, <<>>), auth_user,
                 nutrients, nextId.nutrient, ingredientNutrients)
    IN  [Database EXCEPT
            !.ingredients = Insert(ingredients, ingredient,
                                   [user |-> auth_user, name |-> name]),
            !.nutrients = n.rows, !.ingredientNutrients = n.assoc,
            !.nextId = [nextId EXCEPT !.ingredient = ingredient + 1,
                                      !.nutrient = n.next],
            !.raised = n.raised]

\* IngredientSerializer.update: the popped default is [], never None, so the
\* test `nutrients is not None` passes whether or not the payload has the field
IngredientSerializer_update(instance, auth_user, name, nutrientField) ==
    LET n == IngredientSerializer_get_or_create_nutrients(
                 instance, Pop(nutrientField, <<>>), auth_user,
                 nutrients, nextId.nutrient, Clear(ingredientNutrients, instance))
    IN  [Database EXCEPT
            !.ingredients = IF n.raised \/ name = NoValue THEN ingredients
                            ELSE [ingredients EXCEPT ![instance].name = name],
            !.nutrients = n.rows, !.ingredientNutrients = n.assoc,
            !.nextId = [nextId EXCEPT !.nutrient = n.next],
            !.raised = n.raised]

\* the database becomes d
Commit(d) ==
    /\ tags' = d.tags
    /\ ingredients' = d.ingredients
    /\ nutrients' = d.nutrients
    /\ recipes' = d.recipes
    /\ recipeTags' = d.recipeTags
    /\ recipeIngredients' = d.recipeIngredients
    /\ ingredientNutrients' = d.ingredientNutrients
    /\ nextId' = d.nextId
    /\ UNCHANGED <<rowLimit, users, authtoken, images,
                   workers>>

----------------------------------------------------------------------------
(* app/recipe/views.py *)

\* a permission class that lets every request in
AllowAny(tok) == TRUE

\* permission_classes = [IsAuthenticated] over authentication_classes =
\* [TokenAuthentication]: the token names a user
IsAuthenticated(tok) == tok \in Users

\* a queryset that is not narrowed to the requesting user
BaseRecipeAttrViewSet_queryset(table, user) == DOMAIN table

\* BaseRecipeAttrViewSet.get_queryset: self.queryset.filter(user=self.request.user)
BaseRecipeAttrViewSet_get_queryset(table, user) == Filter(table, [user |-> user])

\* the nutrients of every user
NutrientViewSet_queryset(user) == DOMAIN nutrients

\* NutrientViewSet.get_queryset: Nutrient.objects.filter(user=self.request.user)
NutrientViewSet_get_queryset(user) == Filter(nutrients, [user |-> user])

\* the rows of RecipeViewSet.get_queryset before distinct(): filter(tags__id__in=)
\* and filter(ingredients__id__in=) each join the association table, so a recipe
\* comes once for every pair of a matching tag and a matching ingredient; an
\* empty parameter is falsy and joins nothing (0 stands for "not joined")
RecipeViewSet_joined(user, tag_ids, ingredient_ids) ==
    {row \in (DOMAIN recipes) \X ({0} \cup tag_ids) \X ({0} \cup ingredient_ids) :
        /\ recipes[row[1]].user = user
        /\ IF tag_ids # {}
           THEN row[2] \in tag_ids /\ <<row[1], row[2]>> \in recipeTags
           ELSE row[2] = 0
        /\ IF ingredient_ids # {}
           THEN row[3] \in ingredient_ids /\ <<row[1], row[3]>> \in recipeIngredients
           ELSE row[3] = 0}

\* the queryset without distinct()
RecipeViewSet_get_queryset_all_rows(user, tag_ids, ingredient_ids) ==
    OrderByIdDescending(RecipeViewSet_joined(user, tag_ids, ingredient_ids))

\* RecipeViewSet.get_queryset:
\* queryset.filter(user=self.request.user).order_by('-id').distinct()
RecipeViewSet_get_queryset(user, tag_ids, ingredient_ids) ==
    Distinct(OrderByIdDescending(RecipeViewSet_joined(user, tag_ids, ingredient_ids)))

\* the request, before it is answered
Request(op, tok, id) == [Idle EXCEPT !.op = op, !.tok = tok, !.id = id]
\* the answer
Status(request, status, data) == [request EXCEPT !.status = status, !.data = data]

\* the nested children of a serialized row: instance.<relation>.all() has no
\* ORDER BY (no model declares Meta.ordering), the rows come in any order
NoBody == [tags |-> <<>>, ingredients |-> <<>>, nutrients |-> <<>>]
Serialized(tagIds, ingredientIds, nutrientIds) ==
    {[tags |-> t, ingredients |-> i, nutrients |-> n] :
        t \in Unordered(tagIds), i \in Unordered(ingredientIds),
        n \in Unordered(nutrientIds)}
\* the bodies a recipe, an ingredient may be serialized to
RecipeBodies(d, recipe) ==
    Serialized(Related(d.recipeTags, recipe), Related(d.recipeIngredients, recipe), {})
IngredientBodies(d, ingredient) ==
    Serialized({}, {}, Related(d.ingredientNutrients, ingredient))

\* PUT needs every required field, PATCH (partial) none
Required(partial, field) == partial \/ field # NoValue

Endpoints ==
    {"recipe-list", "recipe-create", "recipe-retrieve", "recipe-update",
     "recipe-destroy",
     "tag-list", "tag-create", "tag-retrieve", "tag-update", "tag-destroy",
     "ingredient-list", "ingredient-create", "ingredient-retrieve",
     "ingredient-update", "ingredient-destroy",
     "nutrient-list", "nutrient-create", "nutrient-detail-get", "nutrient-update",
     "nutrient-destroy"}

\* APIView.initial: no valid token, 401 before any handler runs
Unauthenticated(tok, op) ==
    /\ http = Idle
    /\ ~IsAuthenticated(tok)
    /\ http' = Status(Request(op, tok, 0), 401, NoData)
    /\ UNCHANGED db

\* ---- recipes: RecipeViewSet (a ModelViewSet)

RecipeViewSet_list(tok, tag_ids, ingredient_ids) ==
    /\ http = Idle
    /\ IsAuthenticated(tok)
    /\ LET queryset == RecipeViewSet_get_queryset(tok, tag_ids, ingredient_ids)
       IN  http' = Status([Request("recipe-list", tok, 0) EXCEPT
                              !.query.tags = tag_ids,
                              !.query.ingredients = ingredient_ids,
                              !.results = queryset],
                          200, Rows(queryset))
    /\ UNCHANGED db

\* perform_create: serializer.save(user=self.request.user)
RecipeViewSet_create(tok, title, tagField, ingredientField) ==
    /\ http = Idle
    /\ IsAuthenticated(tok)
    /\ LET d == RecipeSerializer_create(tok, title, tagField, ingredientField)
           request == [Request("recipe-create", tok, 0) EXCEPT
                          !.title = title, !.tags = tagField,
                          !.ingredients = ingredientField]
       IN  IF ~(/\ TagSerializer_is_valid(tagField.value, FALSE)
                /\ TagSerializer_is_valid(ingredientField.value, FALSE))
           THEN /\ http' = Status(request, 400, NoData)
                /\ UNCHANGED db
           ELSE /\ Fits(d.nextId)
                /\ Commit(d)
                /\ IF d.raised THEN http' = Status(request, 500, NoData)
                   ELSE \E body \in RecipeBodies(d, nextId.recipe) :
                           http' = Status([request EXCEPT !.returned = body],
                                          201, {nextId.recipe})

RecipeViewSet_retrieve(tok, id) ==
    /\ http = Idle
    /\ IsAuthenticated(tok)
    /\ IF id \in Rows(RecipeViewSet_get_queryset(tok, {}, {}))
       THEN \E body \in RecipeBodies(Database, id) :
               http' = Status([Request("recipe-retrieve", tok, id) EXCEPT
                                  !.returned = body], 200, {id})
       ELSE http' = Status(Request("recipe-retrieve", tok, id), 404, NoData)
    /\ UNCHANGED db

\* update (PUT) and partial_update (PATCH)
RecipeViewSet_update(tok, id, partial, title, user, tagField, ingredientField) ==
    /\ http = Idle
    /\ IsAuthenticated(tok)
    /\ Required(partial, title)
    /\ IF id \notin Rows(RecipeViewSet_get_queryset(tok, {}, {}))
       THEN /\ http' = Status(Request("recipe-update", tok, id), 404, NoData)
            /\ UNCHANGED db
       ELSE LET d == RecipeSerializer_update(
                         id, tok, RecipeSerializer_validated_data(title, user),
                         tagField, ingredientField)
                request == [Request("recipe-update", tok, id) EXCEPT
                               !.partial = partial, !.title = title, !.user = user,
                               !.tags = tagField, !.ingredients = ingredientField]
            IN  IF ~(/\ TagSerializer_is_valid(tagField.value, partial)
                     /\ TagSerializer_is_valid(ingredientField.value, partial))
                THEN /\ http' = Status(request, 400, NoData)
                     /\ UNCHANGED db
                ELSE /\ Fits(d.nextId)
                     /\ Commit(d)
                     /\ IF d.raised THEN http' = Status(request, 500, NoData)
                        ELSE \E body \in RecipeBodies(d, id) :
                                http' = Status([request EXCEPT !.returned = body],
                                               200, {id})

\* a delete that takes the recipe's tags and ingredients with it
RecipeViewSet_destroy_cascading(tok, id) ==
    /\ http = Idle
    /\ IsAuthenticated(tok)
    /\ IF id \notin Rows(RecipeViewSet_get_queryset(tok, {}, {}))
       THEN /\ http' = Status(Request("recipe-destroy", tok, id), 404, NoData)
            /\ UNCHANGED db
       ELSE /\ recipes' = Delete(recipes, id)
            /\ tags' = [t \in DOMAIN tags \ Related(recipeTags, id) |-> tags[t]]
            /\ ingredients' = [i \in DOMAIN ingredients \ Related(recipeIngredients, id)
                                 |-> ingredients[i]]
            /\ recipeTags' = WithoutLeft(recipeTags, id)
            /\ recipeIngredients' = WithoutLeft(recipeIngredients, id)
            /\ http' = Status(Request("recipe-destroy", tok, id), 204, NoData)
            /\ UNCHANGED <<nutrients, ingredientNutrients, nextId,
                           rowLimit, users, authtoken, images,
                           workers>>

\* DestroyModelMixin.destroy: instance.delete()
RecipeViewSet_destroy(tok, id) ==
    /\ http = Idle
    /\ IsAuthenticated(tok)
    /\ IF id \notin Rows(RecipeViewSet_get_queryset(tok, {}, {}))
       THEN /\ http' = Status(Request("recipe-destroy", tok, id), 404, NoData)
            /\ UNCHANGED db
       ELSE /\ recipes' = Delete(recipes, id)
            /\ recipeTags' = WithoutLeft(recipeTags, id)
            /\ recipeIngredients' = WithoutLeft(recipeIngredients, id)
            /\ http' = Status(Request("recipe-destroy", tok, id), 204, NoData)
            /\ UNCHANGED <<tags, ingredients, nutrients, ingredientNutrients, nextId,
                           rowLimit, users, authtoken, images,
                           workers>>

\* ---- tags: TagViewSet (BaseRecipeAttrViewSet)

\* get_queryset reads no query parameter: assigned_only is accepted and ignored
TagViewSet_list(tok, assigned_only) ==
    /\ http = Idle
    /\ IsAuthenticated(tok)
    /\ \E queryset \in OrderByNameDescending(tags,
                          BaseRecipeAttrViewSet_get_queryset(tags, tok)) :
          http' = Status([Request("tag-list", tok, 0) EXCEPT
                             !.query.assigned_only = assigned_only,
                             !.results = queryset],
                         200, Rows(queryset))
    /\ UNCHANGED db

\* CreateModelMixin.create: TagViewSet has no perform_create, serializer.save()
\* passes no user and the insert fails on Tag.user, which is not nullable
TagViewSet_create(tok, name) ==
    /\ http = Idle
    /\ IsAuthenticated(tok)
    /\ http' = Status([Request("tag-create", tok, 0) EXCEPT !.name = name],
                      500, NoData)
    /\ UNCHANGED db

TagViewSet_retrieve(tok, id) ==
    /\ http = Idle
    /\ IsAuthenticated(tok)
    /\ http' = IF id \in BaseRecipeAttrViewSet_get_queryset(tags, tok)
               THEN Status(Request("tag-retrieve", tok, id), 200, {id})
               ELSE Status(Request("tag-retrieve", tok, id), 404, NoData)
    /\ UNCHANGED db

TagViewSet_update(tok, id, partial, name) ==
    /\ http = Idle
    /\ IsAuthenticated(tok)
    /\ Required(partial, name)
    /\ IF id \notin BaseRecipeAttrViewSet_get_queryset(tags, tok)
       THEN /\ http' = Status(Request("tag-update", tok, id), 404, NoData)
            /\ UNCHANGED db
       ELSE /\ tags' = IF name = NoValue THEN tags
                       ELSE [tags EXCEPT ![id].name = name]
            /\ http' = Status([Request("tag-update", tok, id) EXCEPT
                                  !.partial = partial, !.name = name], 200, {id})
            /\ UNCHANGED <<ingredients, nutrients, recipes, recipeTags,
                           recipeIngredients, ingredientNutrients, nextId,
                           rowLimit, users, authtoken, images,
                           workers>>

TagViewSet_destroy(tok, id) ==
    /\ http = Idle
    /\ IsAuthenticated(tok)
    /\ IF id \notin BaseRecipeAttrViewSet_get_queryset(tags, tok)
       THEN /\ http' = Status(Request("tag-destroy", tok, id), 404, NoData)
            /\ UNCHANGED db
       ELSE /\ tags' = Delete(tags, id)
            /\ recipeTags' = WithoutRight(recipeTags, id)
            /\ http' = Status(Request("tag-destroy", tok, id), 204, NoData)
            /\ UNCHANGED <<ingredients, nutrients, recipes, recipeIngredients,
                           ingredientNutrients, nextId, rowLimit, users, authtoken, images,
                           workers>>

\* ---- ingredients: IngredientViewSet (BaseRecipeAttrViewSet)

\* get_queryset reads no query parameter: assigned_only is accepted and ignored
IngredientViewSet_list(tok, assigned_only) ==
    /\ http = Idle
    /\ IsAuthenticated(tok)
    /\ \E queryset \in OrderByNameDescending(ingredients,
                          BaseRecipeAttrViewSet_get_queryset(ingredients, tok)) :
          http' = Status([Request("ingredient-list", tok, 0) EXCEPT
                             !.query.assigned_only = assigned_only,
                             !.results = queryset],
                         200, Rows(queryset))
    /\ UNCHANGED db

\* perform_create: serializer.save(user=self.request.user)
IngredientViewSet_create(tok, name, nutrientField) ==
    /\ http = Idle
    /\ IsAuthenticated(tok)
    /\ LET d == IngredientSerializer_create(tok, name, nutrientField)
           request == [Request("ingredient-create", tok, 0) EXCEPT
                          !.name = name, !.nutrients = nutrientField]
       IN  IF ~NutrientSerializer_is_valid(nutrientField.value, FALSE)
           THEN /\ http' = Status(request, 400, NoData)
                /\ UNCHANGED db
           ELSE /\ Fits(d.nextId)
                /\ Commit(d)
                /\ IF d.raised THEN http' = Status(request, 500, NoData)
                   ELSE \E body \in IngredientBodies(d, nextId.ingredient) :
                           http' = Status([request EXCEPT !.returned = body],
                                          201, {nextId.ingredient})

IngredientViewSet_retrieve(tok, id) ==
    /\ http = Idle
    /\ IsAuthenticated(tok)
    /\ IF id \in BaseRecipeAttrViewSet_get_queryset(ingredients, tok)
       THEN \E body \in IngredientBodies(Database, id) :
               http' = Status([Request("ingredient-retrieve", tok, id) EXCEPT
                                  !.returned = body], 200, {id})
       ELSE http' = Status(Request("ingredient-retrieve", tok, id), 404, NoData)
    /\ UNCHANGED db

IngredientViewSet_update(tok, id, partial, name, nutrientField) ==
    /\ http = Idle
    /\ IsAuthenticated(tok)
    /\ Required(partial, name)
    /\ IF id \notin BaseRecipeAttrViewSet_get_queryset(ingredients, tok)
       THEN /\ http' = Status(Request("ingredient-update", tok, id), 404, NoData)
            /\ UNCHANGED db
       ELSE LET d == IngredientSerializer_update(id, tok, name, nutrientField)
                request == [Request("ingredient-update", tok, id) EXCEPT
                               !.partial = partial, !.name = name,
                               !.nutrients = nutrientField]
            IN  IF ~NutrientSerializer_is_valid(nutrientField.value, partial)
                THEN /\ http' = Status(request, 400, NoData)
                     /\ UNCHANGED db
                ELSE /\ Fits(d.nextId)
                     /\ Commit(d)
                     /\ IF d.raised THEN http' = Status(request, 500, NoData)
                        ELSE \E body \in IngredientBodies(d, id) :
                                http' = Status([request EXCEPT !.returned = body],
                                               200, {id})

IngredientViewSet_destroy(tok, id) ==
    /\ http = Idle
    /\ IsAuthenticated(tok)
    /\ IF id \notin BaseRecipeAttrViewSet_get_queryset(ingredients, tok)
       THEN /\ http' = Status(Request("ingredient-destroy", tok, id), 404, NoData)
            /\ UNCHANGED db
       ELSE /\ ingredients' = Delete(ingredients, id)
            /\ recipeIngredients' = WithoutRight(recipeIngredients, id)
            /\ ingredientNutrients' = WithoutLeft(ingredientNutrients, id)
            /\ http' = Status(Request("ingredient-destroy", tok, id), 204, NoData)
            /\ UNCHANGED <<tags, nutrients, recipes, recipeTags, nextId,
                           rowLimit, users, authtoken, images,
                           workers>>

\* ---- nutrients: NutrientViewSet (list, create, update, destroy; no retrieve)

NutrientViewSet_list(tok) ==
    /\ http = Idle
    /\ IsAuthenticated(tok)
    /\ \E queryset \in Unordered(NutrientViewSet_get_queryset(tok)) :
          http' = Status([Request("nutrient-list", tok, 0) EXCEPT
                             !.results = queryset],
                         200, Rows(queryset))
    /\ UNCHANGED db

\* perform_create: serializer.save(user=self.request.user)
NutrientViewSet_create(tok, name, grams) ==
    /\ http = Idle
    /\ IsAuthenticated(tok)
    /\ Fits([nextId EXCEPT !.nutrient = @ + 1])
    /\ nutrients' = Insert(nutrients, nextId.nutrient,
                           [user |-> tok, name |-> name, grams |-> grams])
    /\ nextId' = [nextId EXCEPT !.nutrient = @ + 1]
    /\ http' = Status([Request("nutrient-create", tok, 0) EXCEPT
                          !.name = name, !.grams = {grams}],
                      201, {nextId.nutrient})
    /\ UNCHANGED <<tags, ingredients, recipes, recipeTags, recipeIngredients,
                   ingredientNutrients, rowLimit, users, authtoken, images,
                   workers>>

\* the router binds no GET to the detail route of a view set without
\* RetrieveModelMixin: 405, whatever the identifier
NutrientViewSet_detail_get(tok, id) ==
    /\ http = Idle
    /\ IsAuthenticated(tok)
    /\ http' = Status(Request("nutrient-detail-get", tok, id), 405, NoData)
    /\ UNCHANGED db

\* grams: the set of the values the payload gives (none or one)
NutrientViewSet_update(tok, id, partial, name, grams) ==
    /\ http = Idle
    /\ IsAuthenticated(tok)
    /\ Required(partial, name)
    /\ partial \/ grams # {}
    /\ IF id \notin NutrientViewSet_get_queryset(tok)
       THEN /\ http' = Status(Request("nutrient-update", tok, id), 404, NoData)
            /\ UNCHANGED db
       ELSE /\ nutrients' =
                  [nutrients EXCEPT
                      ![id].name = IF name = NoValue THEN @ ELSE name,
                      ![id].grams = IF grams = {} THEN @ ELSE CHOOSE g \in grams : TRUE]
            /\ http' = Status([Request("nutrient-update", tok, id) EXCEPT
                                  !.partial = partial, !.name = name, !.grams = grams],
                              200, {id})
            /\ UNCHANGED <<tags, ingredients, recipes, recipeTags, recipeIngredients,
                           ingredientNutrients, nextId, rowLimit, users, authtoken, images,
                           workers>>

NutrientViewSet_destroy(tok, id) ==
    /\ http = Idle
    /\ IsAuthenticated(tok)
    /\ IF id \notin NutrientViewSet_get_queryset(tok)
       THEN /\ http' = Status(Request("nutrient-destroy", tok, id), 404, NoData)
            /\ UNCHANGED db
       ELSE /\ nutrients' = Delete(nutrients, id)
            /\ ingredientNutrients' = WithoutRight(ingredientNutrients, id)
            /\ http' = Status(Request("nutrient-destroy", tok, id), 204, NoData)
            /\ UNCHANGED <<tags, ingredients, recipes, recipeTags, recipeIngredients,
                           nextId, rowLimit, users, authtoken, images,
                           workers>>

----------------------------------------------------------------------------
(* The user API: app/user *)

\* text is a sequence of characters, so that trimming and case are computed
Emails == {<<"a", "@", "x">>, <<"a", "@", "X">>, <<"A", "@", "X">>, <<"b", "@", "x">>,
           <<" ", "a", "@", "x">>, <<"a", "x">>}
Passwords == {<<"p", "a", "s", "s", "1">>, <<"p", "a", "s", "s", "2">>,
              <<" ", "p", "a", "s", "s", "1">>, <<"p", "w">>, <<>>}
UserNames == {"n1", NoValue}
\* the name a profile update may bring
NewUserNames == {"n2"}

\* str.lower, on the letters in use
Lower(c) == CASE c = "A" -> "a" [] c = "B" -> "b" [] c = "X" -> "x" [] OTHER -> c
\* str.strip
RECURSIVE LStrip(_)
LStrip(s) == IF s # <<>> /\ Head(s) = " " THEN LStrip(Tail(s)) ELSE s
RECURSIVE RStrip(_)
RStrip(s) == IF s # <<>> /\ s[Len(s)] = " " THEN RStrip(SubSeq(s, 1, Len(s) - 1)) ELSE s
Strip(s) == RStrip(LStrip(s))
\* the position of the last "@" of s, 0 when it has none
LastAt(s) == IF \E i \in 1..Len(s) : s[i] = "@"
             THEN CHOOSE i \in 1..Len(s) :
                      s[i] = "@" /\ \A j \in (i + 1)..Len(s) : s[j] # "@"
             ELSE 0

\* an email lower-cased as a whole
normalize_email_lower(email) ==
    [i \in 1..Len(Strip(email)) |-> Lower(Strip(email)[i])]

\* BaseUserManager.normalize_email: email.strip().rsplit("@", 1), the domain
\* part lower-cased; an email without "@" is returned as it came
normalize_email(email) ==
    LET e == Strip(email)
        k == LastAt(e)
    IN  IF k = 0 THEN email
        ELSE SubSeq(e, 1, k) \o [i \in 1..(Len(e) - k) |-> Lower(e[k + i])]

\* the password hasher: the stored value is not the raw password, and only the
\* raw password it was made from checks against it
make_password(raw) == <<"pbkdf2", raw>>
check_password(raw, encoded) == encoded = make_password(raw)

\* EmailValidator: one "@" between a user part and a domain part, no blanks
EmailValidator(value) ==
    /\ LastAt(value) > 1
    /\ LastAt(value) < Len(value)
    /\ \A i \in 1..Len(value) : value[i] # " " /\ (value[i] = "@" => i = LastAt(value))

\* UserSerializer.Meta.extra_kwargs: password min_length
UserSerializer_password_min_length == 5

\* CharField.run_validation of the serializer's fields: both the email and the
\* password field trim whitespace (the default of CharField)
UserSerializer_validated_data(email, password, name) ==
    [email |-> Strip(email), password |-> Strip(password), name |-> name]

\* a serializer whose password field has no min_length
UserSerializer_is_valid_any_length(email, password, name) ==
    LET validated_data == UserSerializer_validated_data(email, password, name)
    IN  /\ validated_data.email # <<>>
        /\ EmailValidator(validated_data.email)
        /\ Filter(users, [email |-> validated_data.email]) = {}
        /\ validated_data.password # <<>>
        /\ name # NoValue

\* UserSerializer.is_valid: no blank or missing field, a well-formed email that
\* no stored user has (the UniqueValidator of a unique model field compares the
\* value as sent), a password of at least min_length characters
UserSerializer_is_valid(email, password, name) ==
    LET validated_data == UserSerializer_validated_data(email, password, name)
    IN  /\ validated_data.email # <<>>
        /\ EmailValidator(validated_data.email)
        /\ Filter(users, [email |-> validated_data.email]) = {}
        /\ validated_data.password # <<>>
        /\ Len(validated_data.password) >= UserSerializer_password_min_length
        /\ name # NoValue

\* UserManager.create_user: the row that user.save() writes; the unique
\* constraint of User.email makes save() raise when the normalized email is
\* stored already
UserManager_create_user(email, password, name) ==
    LET row == [email |-> normalize_email(email),
                password |-> make_password(password),
                name |-> name]
    IN  [raised |-> email = <<>> \/ Filter(users, [email |-> row.email]) # {},
         row |-> row]

\* UserSerializer.create: create_user with the validated data
UserSerializer_create(validated_data) ==
    UserManager_create_user(validated_data.email, validated_data.password,
                            validated_data.name)

\* CreateUserView (CreateAPIView.post), no authentication asked
CreateUserView_post(email, password, name) ==
    /\ http = Idle
    /\ Len(users) < MaxUsers
    /\ LET request == [Request("user-create", NoToken, 0) EXCEPT
                          !.email = email, !.password = password, !.name = name]
           saved == UserSerializer_create(
                        UserSerializer_validated_data(email, password, name))
       IN  IF ~UserSerializer_is_valid(email, password, name)
           THEN /\ http' = Status(request, 400, NoData)
                /\ UNCHANGED db
           ELSE IF saved.raised
                THEN /\ http' = Status(request, 500, NoData)
                     /\ UNCHANGED db
                ELSE /\ users' = Append(users, saved.row)
                     /\ http' = Status([request EXCEPT !.id = Len(users) + 1],
                                       201, {Len(users) + 1})
                     /\ UNCHANGED <<tags, ingredients, nutrients, recipes,
                                    recipeTags, recipeIngredients,
                                    ingredientNutrients, nextId, rowLimit, authtoken, images,
                                    workers>>

\* ModelBackend.authenticate: the user whose stored email is the given one and
\* whose stored password the given one checks against, 0 when there is none
authenticate(username, password) ==
    LET found == {id \in Filter(users, [email |-> username]) :
                     check_password(password, users[id].password)}
    IN  IF found = {} THEN 0 ELSE CHOOSE id \in found : TRUE

\* AuthTokenSerializer: the email field trims whitespace, the password field
\* does not (trim_whitespace=False); validate() fails when authenticate finds
\* no user
AuthTokenSerializer_attrs(email, password) ==
    [email |-> Strip(email), password |-> password]
AuthTokenSerializer_is_valid(email, password) ==
    LET attrs == AuthTokenSerializer_attrs(email, password)
    IN  /\ attrs.email # <<>>
        /\ EmailValidator(attrs.email)
        /\ attrs.password # <<>>
        /\ authenticate(attrs.email, attrs.password) # 0

\* CreateTokenView (ObtainAuthToken.post): Token.objects.get_or_create(user=user),
\* the body carries the key of that user's token
CreateTokenView_post(email, password) ==
    /\ http = Idle
    /\ LET request == [Request("user-token", NoToken, 0) EXCEPT
                          !.email = email, !.password = password]
           attrs == AuthTokenSerializer_attrs(email, password)
           user == authenticate(attrs.email, attrs.password)
       IN  IF ~AuthTokenSerializer_is_valid(email, password)
           THEN /\ http' = Status(request, 400, NoData)
                /\ UNCHANGED db
           ELSE /\ authtoken' = authtoken \cup {user}
                /\ http' = [Status(request, 200, NoData) EXCEPT !.token = user]
                /\ UNCHANGED <<tags, ingredients, nutrients, recipes,
                               recipeTags, recipeIngredients,
                               ingredientNutrients, nextId, rowLimit, users, images,
                               workers>>

\* ModelSerializer.update, which UserSerializer does not override: every
\* validated field is set on the instance as it is, the password too
UserSerializer_update(instance, validated_data, fields) ==
    [f \in DOMAIN instance |->
        IF f \in fields THEN validated_data[f] ELSE instance[f]]

\* UserSerializer.is_valid of a partial update: a field that is sent is
\* validated as on registration, a field that is not sent is skipped
UserSerializer_is_valid_partial(password, name, fields) ==
    /\ "password" \in fields =>
          /\ Strip(password) # <<>>
          /\ Len(Strip(password)) >= UserSerializer_password_min_length
    /\ "name" \in fields => name # NoValue

\* PATCH /user/me/: the self-profile of the user whose token the request bears,
\* updated through UserSerializer
ManageUserView_patch(bearer, password, name, fields) ==
    /\ http = Idle
    /\ LET request == [Request("user-me-patch", NoToken, 0) EXCEPT
                          !.bearer = bearer, !.password = password,
                          !.name = name, !.fields = fields, !.partial = TRUE]
       IN  IF bearer \notin authtoken
           THEN /\ http' = Status(request, 401, NoData)
                /\ UNCHANGED db
           ELSE IF ~UserSerializer_is_valid_partial(password, name, fields)
                THEN /\ http' = Status([request EXCEPT !.id = bearer], 400, NoData)
                     /\ UNCHANGED db
                ELSE /\ users' = [users EXCEPT ![bearer] =
                                    UserSerializer_update(
                                        @, UserSerializer_validated_data(
                                               @.email, password, name), fields)]
                     /\ http' = Status([request EXCEPT !.id = bearer], 200, {bearer})
                     /\ UNCHANGED <<tags, ingredients, nutrients, recipes,
                                    recipeTags, recipeIngredients,
                                    ingredientNutrients, nextId, rowLimit, authtoken, images,
                                    workers>>

----------------------------------------------------------------------------
(* Concurrent requests: each statement of a handler is a step of its worker *)

Workers == {"w1", "w2"}
\* a worker with no request
Waiting == [pc |-> "waiting", user |-> NoToken, name |-> NoValue, recipe |-> 0,
            missed |-> FALSE, status |-> 0]

\* a create that runs under a unique constraint on the keywords: the insert of
\* a row that is stored already fails and get_or_create returns the stored row
Create_under_unique_constraint(table, next, kw) ==
    IF Filter(table, kw) # {}
    THEN [rows |-> table, next |-> next, obj |-> CHOOSE i \in Filter(table, kw) : TRUE]
    ELSE [rows |-> Insert(table, next, WithDefaults(kw)), next |-> next + 1,
          obj |-> next]

\* the create half of get_or_create: INSERT; no model declares a unique
\* constraint on its keywords, so the insert never fails
Create(table, next, kw) ==
    [rows |-> Insert(table, next, WithDefaults(kw)), next |-> next + 1, obj |-> next]

\* RecipeSerializer.create up to the reconciler, for a payload with one tag:
\* Recipe.objects.create(user=request.user, title)
RecipeSerializer_create_recipe(w, user, name) ==
    /\ http = Idle
    /\ workers[w].pc = "waiting"
    /\ Fits([nextId EXCEPT !.recipe = @ + 1])
    /\ recipes' = Insert(recipes, nextId.recipe, [user |-> user, title |-> "t1"])
    /\ nextId' = [nextId EXCEPT !.recipe = @ + 1]
    /\ workers' = [workers EXCEPT ![w] =
                      [Waiting EXCEPT !.pc = "get", !.user = user, !.name = name,
                                      !.recipe = nextId.recipe]]
    /\ UNCHANGED <<tags, ingredients, nutrients, recipeTags, recipeIngredients,
                   ingredientNutrients, rowLimit, users, authtoken, images, http>>

\* _get_or_create_tags, the get half of Tag.objects.get_or_create: SELECT; one
\* row found is added to the recipe, several raise MultipleObjectsReturned
get_or_create_tags_get(w) ==
    /\ workers[w].pc = "get"
    /\ LET found == Filter(tags, NameKeywords(workers[w].user, workers[w].name))
       IN  IF found = {}
           THEN /\ workers' = [workers EXCEPT ![w].pc = "create", ![w].missed = TRUE]
                /\ UNCHANGED recipeTags
           ELSE IF Cardinality(found) > 1
           THEN /\ workers' = [workers EXCEPT ![w].pc = "done", ![w].status = 500]
                /\ UNCHANGED recipeTags
           ELSE /\ recipeTags' = recipeTags \cup
                                    {<<workers[w].recipe, CHOOSE t \in found : TRUE>>}
                /\ workers' = [workers EXCEPT ![w].pc = "done", ![w].status = 201]
    /\ UNCHANGED <<tags, ingredients, nutrients, recipes, recipeIngredients,
                   ingredientNutrients, nextId, rowLimit, users, authtoken, images,
                   http>>

\* _get_or_create_tags, the create half of Tag.objects.get_or_create and
\* recipe.tags.add(tag_obj)
get_or_create_tags_create(w) ==
    /\ workers[w].pc = "create"
    /\ LET created == Create(tags, nextId.tag,
                             NameKeywords(workers[w].user, workers[w].name))
       IN  /\ Fits([nextId EXCEPT !.tag = created.next])
           /\ tags' = created.rows
           /\ nextId' = [nextId EXCEPT !.tag = created.next]
           /\ recipeTags' = recipeTags \cup {<<workers[w].recipe, created.obj>>}
    /\ workers' = [workers EXCEPT ![w].pc = "done", ![w].status = 201]
    /\ UNCHANGED <<ingredients, nutrients, recipes, recipeIngredients,
                   ingredientNutrients, rowLimit, users, authtoken, images, http>>

\* the worker sends its response and waits for the next request
WorkerResponds(w) ==
    /\ workers[w].pc = "done"
    /\ workers' = [workers EXCEPT ![w] = Waiting]
    /\ UNCHANGED <<tags, ingredients, nutrients, recipes, recipeTags,
                   recipeIngredients, ingredientNutrients, nextId, rowLimit,
                   users, authtoken, images, http>>

----------------------------------------------------------------------------
(* Image paths: app/core/models.py *)

\* file names as sequences of characters, "/" the separator of directories
Filenames == {<<"a", ".", "j">>, <<"a">>, <<".", "j">>, <<"a", ".", "b", ".", "j">>,
              <<"a", ".", "b", "/", "c">>}
\* the values uuid.uuid4() may return
Uuids == {"uuid-1", "uuid-2"}

\* str.rfind: the last position of c in p, 0 when p has none
RFind(p, c) == IF \E i \in 1..Len(p) : p[i] = c
               THEN CHOOSE i \in 1..Len(p) :
                        p[i] = c /\ \A j \in (i + 1)..Len(p) : p[j] # c
               ELSE 0

\* os.path.splitext(filename)[1]: from the last dot of the last path component,
\* unless only dots come before it in that component
splitext_ext(p) ==
    LET sepIndex == RFind(p, "/")
        dotIndex == RFind(p, ".")
    IN  IF dotIndex > sepIndex /\ \E i \in (sepIndex + 1)..(dotIndex - 1) : p[i] # "."
        THEN SubSeq(p, dotIndex, Len(p))
        ELSE <<>>

\* os.path.join('uploads', directory, name)
join(directory, name) == <<"uploads", "/", directory, "/">> \o name

\* a generator that keeps the name of the upload
recipe_image_file_path_same_name(instance, filename, uuid4) ==
    join("recipe", filename)

\* recipe_image_file_path(instance, filename), uuid4 the value uuid.uuid4() returns
recipe_image_file_path(instance, filename, uuid4) ==
    LET ext == splitext_ext(filename)
    IN  join("recipe", <<uuid4>> \o ext)

\* ingredient_image_file_path(instance, filename)
ingredient_image_file_path(instance, filename, uuid4) ==
    LET ext == splitext_ext(filename)
    IN  join("ingredient", <<uuid4>> \o ext)

\* ImageField(upload_to=recipe_image_file_path): the path of an image uploaded
\* for a recipe
UploadRecipeImage(instance, filename) ==
    /\ http = Idle
    /\ Len(images) < MaxUploads
    /\ \E uuid4 \in Uuids :
           images' = Append(images,
                            [to |-> "recipe", instance |-> instance,
                             filename |-> filename, uuid |-> uuid4,
                             path |-> recipe_image_file_path(instance, filename, uuid4)])
    /\ UNCHANGED <<tags, ingredients, nutrients, recipes, recipeTags,
                   recipeIngredients, ingredientNutrients, nextId, rowLimit,
                   users, authtoken, workers, http>>

\* ImageField(upload_to=ingredient_image_file_path)
UploadIngredientImage(instance, filename) ==
    /\ http = Idle
    /\ Len(images) < MaxUploads
    /\ \E uuid4 \in Uuids :
           images' = Append(images,
                            [to |-> "ingredient", instance |-> instance,
                             filename |-> filename, uuid |-> uuid4,
                             path |-> ingredient_image_file_path(instance, filename,
                                                                 uuid4)])
    /\ UNCHANGED <<tags, ingredients, nutrients, recipes, recipeTags,
                   recipeIngredients, ingredientNutrients, nextId, rowLimit,
                   users, authtoken, workers, http>>

\* the response is sent; the server waits for the next request
Respond ==
    /\ http # Idle
    /\ http' = Idle
    /\ UNCHANGED db

----------------------------------------------------------------------------
(* Specifications *)

\* an empty database with room for `rows` rows, `recipeRows` of them recipes
Empty(rows, recipeRows) ==
    /\ tags = EmptyTable
    /\ ingredients = EmptyTable
    /\ nutrients = EmptyTable
    /\ recipes = EmptyTable
    /\ recipeTags = {}
    /\ recipeIngredients = {}
    /\ ingredientNutrients = {}
    /\ nextId = [recipe |-> 1, tag |-> 1, ingredient |-> 1, nutrient |-> 1]
    /\ rowLimit = [total |-> rows, recipes |-> recipeRows]
    /\ users = <<>>
    /\ authtoken = {}
    /\ images = <<>>
    /\ workers = [p \in Workers |-> Waiting]
    /\ http = Idle

RecipeIds == 1..rowLimit.recipes
TagIds == 1..MaxTags
IngredientIds == 1..MaxIngredients
NutrientIds == 1..MaxNutrients

\* the tokens of the clients that may send a request: none while one is answered
Clients == IF http = Idle THEN Tokens ELSE {}

\* every endpoint of app/recipe/urls.py
Init == Empty(MaxRows, MaxRecipes)

Next ==
    \/ \E tok \in Clients, op \in Endpoints : Unauthenticated(tok, op)
    \/ \E tok \in Clients, t \in SUBSET TagIds, i \in SUBSET IngredientIds :
          RecipeViewSet_list(tok, t, i)
    \/ \E tok \in Clients, title \in Titles,
          t \in Optional(NameLists), i \in Optional(NameLists) :
          RecipeViewSet_create(tok, title, t, i)
    \/ \E tok \in Clients, id \in RecipeIds : RecipeViewSet_retrieve(tok, id)
    \/ \E tok \in Clients, id \in RecipeIds, partial \in BOOLEAN,
          title \in Titles \cup {NoValue},
          t \in Optional(NameLists), i \in Optional(NameLists) :
          RecipeViewSet_update(tok, id, partial, title, NoValue, t, i)
    \/ \E tok \in Clients, id \in RecipeIds : RecipeViewSet_destroy(tok, id)
    \/ \E tok \in Clients, assigned_only \in BOOLEAN :
          TagViewSet_list(tok, assigned_only)
    \/ \E tok \in Clients, name \in Names : TagViewSet_create(tok, name)
    \/ \E tok \in Clients, id \in TagIds : TagViewSet_retrieve(tok, id)
    \/ \E tok \in Clients, id \in TagIds, partial \in BOOLEAN,
          name \in Names \cup {NoValue} : TagViewSet_update(tok, id, partial, name)
    \/ \E tok \in Clients, id \in TagIds : TagViewSet_destroy(tok, id)
    \/ \E tok \in Clients, assigned_only \in BOOLEAN :
          IngredientViewSet_list(tok, assigned_only)
    \/ \E tok \in Clients, name \in Names, n \in Optional(NutrientLists) :
          IngredientViewSet_create(tok, name, n)
    \/ \E tok \in Clients, id \in IngredientIds : IngredientViewSet_retrieve(tok, id)
    \/ \E tok \in Clients, id \in IngredientIds, partial \in BOOLEAN,
          name \in Names \cup {NoValue}, n \in Optional(NutrientLists) :
          IngredientViewSet_update(tok, id, partial, name, n)
    \/ \E tok \in Clients, id \in IngredientIds : IngredientViewSet_destroy(tok, id)
    \/ \E tok \in Clients : NutrientViewSet_list(tok)
    \/ \E tok \in Clients, name \in Names, grams \in GramValues :
          NutrientViewSet_create(tok, name, grams)
    \/ \E tok \in Clients, id \in NutrientIds : NutrientViewSet_detail_get(tok, id)
    \/ \E tok \in Clients, id \in NutrientIds, partial \in BOOLEAN,
          name \in Names \cup {NoValue}, grams \in {{}} \cup {{g} : g \in GramValues} :
          NutrientViewSet_update(tok, id, partial, name, grams)
    \/ \E tok \in Clients, id \in NutrientIds : NutrientViewSet_destroy(tok, id)
    \/ Respond

Spec == Init /\ [][Next]_vars

\* the recipe, tag and ingredient endpoints, with payloads that nest no nutrients
RecipeApiInit == Empty(MaxRecipeApiRows, MaxRecipes)

RecipeApiNext ==
    \/ \E tok \in Clients, op \in Endpoints : Unauthenticated(tok, op)
    \/ \E tok \in Clients, name \in Names : TagViewSet_create(tok, name)
    \/ \E tok \in Clients, t \in SUBSET TagIds, i \in SUBSET IngredientIds :
          RecipeViewSet_list(tok, t, i)
    \/ \E tok \in Clients, title \in Titles,
          t \in Optional(NameLists), i \in Optional(NameLists) :
          RecipeViewSet_create(tok, title, t, i)
    \/ \E tok \in Clients, id \in RecipeIds : RecipeViewSet_retrieve(tok, id)
    \/ \E tok \in Clients, id \in RecipeIds, partial \in BOOLEAN,
          title \in Titles \cup {NoValue},
          t \in Optional(NameLists), i \in Optional(NameLists) :
          RecipeViewSet_update(tok, id, partial, title, NoValue, t, i)
    \/ \E tok \in Clients, id \in RecipeIds : RecipeViewSet_destroy(tok, id)
    \/ \E tok \in Clients, assigned_only \in BOOLEAN :
          TagViewSet_list(tok, assigned_only)
    \/ \E tok \in Clients, id \in TagIds : TagViewSet_retrieve(tok, id)
    \/ \E tok \in Clients, id \in TagIds, partial \in BOOLEAN,
          name \in Names \cup {NoValue} : TagViewSet_update(tok, id, partial, name)
    \/ \E tok \in Clients, id \in TagIds : TagViewSet_destroy(tok, id)
    \/ \E tok \in Clients, assigned_only \in BOOLEAN :
          IngredientViewSet_list(tok, assigned_only)
    \/ \E tok \in Clients, name \in Names :
          IngredientViewSet_create(tok, name, Absent)
    \/ \E tok \in Clients, id \in IngredientIds : IngredientViewSet_retrieve(tok, id)
    \/ \E tok \in Clients, id \in IngredientIds, partial \in BOOLEAN,
          name \in Names \cup {NoValue} :
          IngredientViewSet_update(tok, id, partial, name, Absent)
    \/ \E tok \in Clients, id \in IngredientIds : IngredientViewSet_destroy(tok, id)
    \/ Respond

RecipeApiSpec == RecipeApiInit /\ [][RecipeApiNext]_vars

\* the endpoints that fill, list and empty the tables: two recipes, no update
\* other than the renaming of a tag or an ingredient
ListingInit == Empty(MaxListedRows, MaxListedRecipes)

ListingNext ==
    \/ \E tok \in Clients, t \in SUBSET TagIds, i \in SUBSET IngredientIds :
          RecipeViewSet_list(tok, t, i)
    \/ \E tok \in Clients, title \in Titles,
          t \in Optional(NameLists), i \in Optional(NameLists) :
          RecipeViewSet_create(tok, title, t, i)
    \/ \E tok \in Clients, id \in RecipeIds : RecipeViewSet_destroy(tok, id)
    \/ \E tok \in Clients, assigned_only \in BOOLEAN :
          TagViewSet_list(tok, assigned_only)
    \/ \E tok \in Clients, id \in TagIds, name \in Names :
          TagViewSet_update(tok, id, FALSE, name)
    \/ \E tok \in Clients, assigned_only \in BOOLEAN :
          IngredientViewSet_list(tok, assigned_only)
    \/ \E tok \in Clients, name \in Names, n \in Optional(NutrientLists) :
          IngredientViewSet_create(tok, name, n)
    \/ \E tok \in Clients, id \in IngredientIds : IngredientViewSet_destroy(tok, id)
    \/ \E tok \in Clients : NutrientViewSet_list(tok)
    \/ \E tok \in Clients, name \in Names, grams \in GramValues :
          NutrientViewSet_create(tok, name, grams)
    \/ Respond

ListingSpec == ListingInit /\ [][ListingNext]_vars

\* the write endpoints of recipes and ingredients, with payloads whose nested
\* mappings may lack their name and recipe updates that may carry a `user` field
PayloadInit == Empty(MaxPayloadRows, MaxRecipes)

PayloadNext ==
    \/ \E tok \in Clients,
          t \in Optional(MalformedNameLists({"a"})),
          i \in Optional(MalformedNameLists({"a"})) :
          RecipeViewSet_create(tok, "t1", t, i)
    \/ \E tok \in Clients, id \in RecipeIds : RecipeViewSet_retrieve(tok, id)
    \/ \E tok \in Clients, id \in RecipeIds, partial \in BOOLEAN,
          title \in {"t1", NoValue}, user \in Users \cup {NoValue},
          t \in Optional(MalformedNameLists({"a"})),
          i \in Optional(MalformedNameLists({"a"})) :
          RecipeViewSet_update(tok, id, partial, title, user, t, i)
    \/ \E tok \in Clients, n \in Optional(MalformedNutrientLists({"a"}, {1})) :
          IngredientViewSet_create(tok, "a", n)
    \/ \E tok \in Clients, id \in IngredientIds : IngredientViewSet_retrieve(tok, id)
    \/ \E tok \in Clients, id \in IngredientIds, partial \in BOOLEAN,
          name \in {"a", NoValue},
          n \in Optional(MalformedNutrientLists({"a"}, {1})) :
          IngredientViewSet_update(tok, id, partial, name, n)
    \/ Respond

PayloadSpec == PayloadInit /\ [][PayloadNext]_vars

\* the endpoints that reconcile nested children, for two users with a recipe each
OwnershipInit == Empty(MaxOwnedRows, MaxOwnedRecipes)

OwnershipNext ==
    \/ \E tok \in Clients, t \in Optional(NameLists), i \in Optional(NameLists) :
          RecipeViewSet_create(tok, "t1", t, i)
    \/ \E tok \in Clients, id \in RecipeIds,
          t \in Optional(NameLists), i \in Optional(NameLists) :
          RecipeViewSet_update(tok, id, TRUE, NoValue, NoValue, t, i)
    \/ \E tok \in Clients, name \in Names, n \in Optional(NutrientLists) :
          IngredientViewSet_create(tok, name, n)
    \/ \E tok \in Clients, id \in IngredientIds, n \in Optional(NutrientLists) :
          IngredientViewSet_update(tok, id, TRUE, NoValue, n)
    \/ \E tok \in Clients, name \in Names, grams \in GramValues :
          NutrientViewSet_create(tok, name, grams)
    \/ Respond

OwnershipSpec == OwnershipInit /\ [][OwnershipNext]_vars

\* recipe creations with one tag, handled by two workers at once
ConcurrentInit == Empty(MaxRacingRows, MaxRacingRecipes)

ConcurrentNext ==
    \/ \E w \in Workers, user \in Users, name \in Names :
          RecipeSerializer_create_recipe(w, user, name)
    \/ \E w \in Workers : get_or_create_tags_get(w)
    \/ \E w \in Workers : get_or_create_tags_create(w)
    \/ \E w \in Workers : WorkerResponds(w)

ConcurrentSpec == ConcurrentInit /\ [][ConcurrentNext]_vars

\* the endpoints of app/user: registration and token issue
UserInit == Empty(0, 0)

UserNext ==
    \/ \E email \in Emails, password \in Passwords, name \in UserNames :
           CreateUserView_post(email, password, name)
    \/ \E email \in Emails, password \in Passwords :
           CreateTokenView_post(email, password)
    \/ Respond

UserSpec == UserInit /\ [][UserNext]_vars

\* the endpoints of app/user with the self-profile
ProfileInit == Empty(0, 0)

ProfileNext ==
    \/ \E email \in Emails, password \in Passwords, name \in UserNames :
           CreateUserView_post(email, password, name)
    \/ \E email \in Emails, password \in Passwords :
           CreateTokenView_post(email, password)
    \/ \E bearer \in 0..MaxUsers, fields \in SUBSET {"password", "name"} :
           \E password \in IF "password" \in fields THEN Passwords ELSE {<<>>},
              name \in IF "name" \in fields THEN NewUserNames ELSE {NoValue} :
               ManageUserView_patch(bearer, password, name, fields)
    \/ Respond

ProfileSpec == ProfileInit /\ [][ProfileNext]_vars

\* the image path generators, applied to the rows 1 and 2 of either table
ImageInit == Empty(0, 0)

ImageNext ==
    \/ \E instance \in 1..2, filename \in Filenames :
           UploadRecipeImage(instance, filename)
    \/ \E instance \in 1..2, filename \in Filenames :
           UploadIngredientImage(instance, filename)

ImageSpec == ImageInit /\ [][ImageNext]_vars

----------------------------------------------------------------------------
(* Vocabulary of the properties *)

\* the names a nested tag or ingredient list gives
ListedNames(field) == {field.value[i] : i \in 1..Len(field.value)}
\* the mappings a nested nutrient list gives
ListedNutrients(field) == {field.value[i] : i \in 1..Len(field.value)}
\* the rows of a table owned by a user
Owned(table, user) == {i \in DOMAIN table : table[i].user = user}
\* the rows a step inserted
Inserted(before, after) == DOMAIN after \ DOMAIN before
\* the request just answered was let in and found its object
Handled(answer, op) ==
    answer.op = op /\ answer.tok \in Users /\ answer.status # 404

\* C1 for one relation: every listed name is resolved to the row the user already
\* had under that name (no new row), or else to one new row of the user; the parent
\* is associated with the resolved rows and with nothing else
ResolvedByName(user, parent, names, before, after, assocAfter) ==
    /\ \A n \in names :
          LET had == Filter(before, NameKeywords(user, n))
              has == Filter(after, NameKeywords(user, n))
          IN  IF had # {}
              THEN has = had /\ \E i \in had : <<parent, i>> \in assocAfter
              ELSE Cardinality(has) = 1 /\ \A i \in has : <<parent, i>> \in assocAfter
    /\ Cardinality(Related(assocAfter, parent)) = Cardinality(names)
    /\ \A i \in Related(assocAfter, parent) :
          after[i].user = user /\ after[i].name \in names

\* C1: a recipe created with nested tags and ingredients reuses the creator's rows
\* of the listed names, creates the missing ones, and is associated with exactly
\* the rows the names resolve to
C1_CreateResolvesEveryName ==
    [][Handled(http', "recipe-create") =>
          /\ nextId.recipe \in DOMAIN recipes'
          /\ ResolvedByName(http'.tok, nextId.recipe, ListedNames(http'.tags),
                            tags, tags', recipeTags')
          /\ ResolvedByName(http'.tok, nextId.recipe, ListedNames(http'.ingredients),
                            ingredients, ingredients', recipeIngredients')]_vars

\* the names a nested list gives more than once
Repeated(field) ==
    {field.value[i] : i \in {k \in 1..Len(field.value) :
        \E l \in 1..Len(field.value) : l # k /\ field.value[l] = field.value[k]}}

\* C2 for one relation: a name given twice leaves one row of the user under that
\* name, and one association of the parent with a row of that name
OneRowOneAssociation(user, parent, field, after, assocAfter) ==
    \A n \in Repeated(field) :
        /\ Cardinality(Filter(after, NameKeywords(user, n))) = 1
        /\ Cardinality(Related(assocAfter, parent)
                       \cap Filter(after, NameKeywords(user, n))) = 1

\* the recipe a recipe create or update request wrote to
Written(answer, next) == IF answer.op = "recipe-create" THEN next.recipe ELSE answer.id

\* C2: a tag or ingredient name given twice in one recipe create or update payload
\* ends as exactly one row for (user, name) and exactly one association
C2_RepeatedNameOneRow ==
    [][(Handled(http', "recipe-create") \/ Handled(http', "recipe-update")) =>
          /\ OneRowOneAssociation(http'.tok, Written(http', nextId), http'.tags,
                                  tags', recipeTags')
          /\ OneRowOneAssociation(http'.tok, Written(http', nextId), http'.ingredients,
                                  ingredients', recipeIngredients')]_vars

\* two rows a step inserted into a table carry the same owner and name
SameOwnerAndName(before, after) ==
    \E i, j \in Inserted(before, after) :
        i # j /\ after[i].user = after[j].user /\ after[i].name = after[j].name
\* two rows a step inserted into a table carry the same lookup keywords: owner and
\* every field of the mapping
SameKeywords(before, after) ==
    \E i, j \in Inserted(before, after) : i # j /\ after[i] = after[j]

ClearsOnPresence(field, before, after) ==
    /\ field = Given(<<>>) => after = {}
    /\ ~field.present => after = before

\* C4: a recipe update with tags: [] removes every tag association of the recipe
\* and one that omits tags leaves them unchanged; the same, independently, for
\* ingredients
C4_UpdateClearsOnPresence ==
    [][Handled(http', "recipe-update") =>
          /\ ClearsOnPresence(http'.tags, Related(recipeTags, http'.id),
                              Related(recipeTags', http'.id))
          /\ ClearsOnPresence(http'.ingredients, Related(recipeIngredients, http'.id),
                              Related(recipeIngredients', http'.id))]_vars

\* C5: an ingredient update whose payload has no nutrients field leaves the
\* ingredient's nutrient associations as they were
C5_OmittedNutrientsUntouched ==
    [][(Handled(http', "ingredient-update") /\ ~http'.nutrients.present) =>
          Related(ingredientNutrients', http'.id)
              = Related(ingredientNutrients, http'.id)]_vars

\* C6 for one relation: every listed mapping resolves to a row, and the parent is
\* associated with the rows the listed mappings resolve to and with no other
ExactlyResolved(parent, kws, after, assocAfter) ==
    /\ \A kw \in kws : Filter(after, kw) # {}
    /\ Related(assocAfter, parent) = UNION {Filter(after, kw) : kw \in kws}

\* C6: after an update that gives a child list, the parent's associations for
\* that relation are the children resolved from the list, whatever they were
\* before: recipe tags, recipe ingredients, ingredient nutrients
C6_UpdateReplacesAssociations ==
    [][/\ (Handled(http', "recipe-update") /\ http'.tags.present) =>
              ExactlyResolved(http'.id,
                  {NameKeywords(http'.tok, n) : n \in ListedNames(http'.tags)},
                  tags', recipeTags')
       /\ (Handled(http', "recipe-update") /\ http'.ingredients.present) =>
              ExactlyResolved(http'.id,
                  {NameKeywords(http'.tok, n) : n \in ListedNames(http'.ingredients)},
                  ingredients', recipeIngredients')
       /\ (Handled(http', "ingredient-update") /\ http'.nutrients.present) =>
              ExactlyResolved(http'.id,
                  {NutrientKeywords(http'.tok, m) : m \in ListedNutrients(http'.nutrients)},
                  nutrients', ingredientNutrients')]_vars

\* C7: an update that gives an empty child list removes the parent's associations
\* for that relation and neither creates nor deletes a row of the child table
C7_EmptyListOnlyUnlinks ==
    [][/\ (Handled(http', "recipe-update") /\ http'.tags = Given(<<>>)) =>
              Related(recipeTags', http'.id) = {} /\ tags' = tags
       /\ (Handled(http', "recipe-update") /\ http'.ingredients = Given(<<>>)) =>
              Related(recipeIngredients', http'.id) = {} /\ ingredients' = ingredients
       /\ (Handled(http', "ingredient-update") /\ http'.nutrients = Given(<<>>)) =>
              Related(ingredientNutrients', http'.id) = {} /\ nutrients' = nutrients]_vars

\* C8: with no filter parameter a list response holds the requester's rows of the
\* table, all of them and no row of another user: recipes, tags, ingredients,
\* nutrients; a filtered recipe list still holds none of another user's recipes
C8_ListIsOwnRows ==
    /\ (http.op = "recipe-list" /\ http.status = 200) =>
          /\ http.data \subseteq Owned(recipes, http.tok)
          /\ (http.query.tags = {} /\ http.query.ingredients = {}) =>
                http.data = Owned(recipes, http.tok)
    /\ (http.op = "tag-list" /\ http.status = 200 /\ ~http.query.assigned_only) =>
          http.data = Owned(tags, http.tok)
    /\ (http.op = "ingredient-list" /\ http.status = 200
            /\ ~http.query.assigned_only) =>
          http.data = Owned(ingredients, http.tok)
    /\ (http.op = "nutrient-list" /\ http.status = 200) =>
          http.data = Owned(nutrients, http.tok)

\* a user who has ingredients and nutrients listed one of the two tables while
\* another user had an ingredient too
C8_Witness ==
    /\ http.op \in {"ingredient-list", "nutrient-list"}
    /\ http.status = 200
    /\ http.data # {}
    /\ Owned(ingredients, http.tok) # {} /\ Owned(nutrients, http.tok) # {}
    /\ \E i \in DOMAIN ingredients : ingredients[i].user # http.tok

\* the routed operations that address one row by identifier, and their tables
DetailTable(op) ==
    CASE op \in {"recipe-retrieve", "recipe-update", "recipe-destroy"} -> recipes
      [] op \in {"tag-retrieve", "tag-update", "tag-destroy"} -> tags
      [] op \in {"ingredient-retrieve", "ingredient-update", "ingredient-destroy"}
            -> ingredients
      [] op \in {"nutrient-update", "nutrient-destroy"} -> nutrients
      [] OTHER -> EmptyTable

\* the answered request addressed a stored row of another user
ForeignRow(answer, table) ==
    /\ answer.tok \in Users
    /\ answer.id \in DOMAIN table
    /\ table[answer.id].user # answer.tok

\* C9: a retrieve, update or delete addressed to another user's row is answered
\* 404 (never 403) and leaves every row and every association as it was
C9_ForeignRowNotFound ==
    [][ForeignRow(http', DetailTable(http'.op)) =>
          http'.status = 404 /\ UNCHANGED db]_vars

\* a user was answered 404 on an update of another user's ingredient that has
\* nutrient associations
C9_Witness ==
    /\ http.op = "ingredient-update"
    /\ http.status = 404
    /\ ForeignRow(http, ingredients)
    /\ Related(ingredientNutrients, http.id) # {}

\* C10: a request without a valid token to any list, detail or create endpoint of
\* recipes, tags, ingredients or nutrients is answered 401 with no data and
\* changes no stored row
C10_NoTokenUnauthorized ==
    [][(http'.op \in Endpoints /\ http'.tok \notin Users) =>
          http'.status = 401 /\ http'.data = NoData /\ UNCHANGED db]_vars

\* a recipe delete without a token was answered 401 while a recipe with
\* associations was stored
C10_Witness ==
    /\ http.op = "recipe-destroy" /\ http.tok = NoToken /\ http.status = 401
    /\ \E r \in DOMAIN recipes : Related(recipeIngredients, r) # {}

\* a create request stored a row of its resource, and every row it stored there
\* belongs to the requester
StoredForRequester(answer, before, after) ==
    /\ Inserted(before, after) # {}
    /\ \A i \in Inserted(before, after) : after[i].user = answer.tok

\* C11: a row created by an authenticated user through POST on recipes, tags,
\* ingredients or nutrients is stored, and stored with that user as its owner
C11_CreatedRowOwnedByRequester ==
    [][/\ Handled(http', "recipe-create") =>
              StoredForRequester(http', recipes, recipes')
       /\ Handled(http', "tag-create") =>
              StoredForRequester(http', tags, tags')
       /\ Handled(http', "ingredient-create") =>
              StoredForRequester(http', ingredients, ingredients')
       /\ Handled(http', "nutrient-create") =>
              StoredForRequester(http', nutrients, nutrients')]_vars

\* the requester's recipes that a tags= / ingredients= filter selects: one of the
\* requested tags, and one of the requested ingredients when both are given
Selected(user, tag_ids, ingredient_ids) ==
    {r \in Owned(recipes, user) :
        /\ tag_ids # {} => Related(recipeTags, r) \cap tag_ids # {}
        /\ ingredient_ids # {} => Related(recipeIngredients, r) \cap ingredient_ids # {}}
\* no row comes twice in a list result
Once(results) ==
    \A i, j \in 1..Len(results) : results[i] = results[j] => i = j

\* C12: a recipe list filtered by tags= and/or ingredients= holds exactly the
\* requester's recipes with at least one requested tag (and at least one requested
\* ingredient), each once, however many requested identifiers it matches
C12_FilterAnyOfOnce ==
    (http.op = "recipe-list" /\ http.status = 200) =>
        /\ Rows(http.results) = Selected(http.tok, http.query.tags, http.query.ingredients)
        /\ Once(http.results)

\* a list filtered by two tags was answered with a recipe that has both
C12_Witness ==
    /\ http.op = "recipe-list" /\ http.status = 200
    /\ Cardinality(http.query.tags) = 2
    /\ \E r \in Rows(http.results) : http.query.tags \subseteq Related(recipeTags, r)

\* the tags or ingredients of a user that some recipe is associated with
Assigned(table, assoc, user) ==
    {c \in Owned(table, user) : \E p \in assoc : p[2] = c}

\* C13: a tag list and an ingredient list requested with assigned_only=1 hold only
\* the requester's rows attached to at least one recipe, each once
C13_AssignedOnly ==
    /\ (http.op = "tag-list" /\ http.status = 200 /\ http.query.assigned_only) =>
          /\ Rows(http.results) = Assigned(tags, recipeTags, http.tok)
          /\ Once(http.results)
    /\ (http.op = "ingredient-list" /\ http.status = 200
            /\ http.query.assigned_only) =>
          /\ Rows(http.results) = Assigned(ingredients, recipeIngredients, http.tok)
          /\ Once(http.results)

\* a list result runs from the largest name to the smallest
NameDescending(table, results) ==
    \A i, j \in 1..Len(results) :
        i < j => Collate(table[results[i]].name) >= Collate(table[results[j]].name)

\* C14: the list results of tags, of ingredients and of nutrients are ordered by
\* name descending
C14_ListsByNameDescending ==
    /\ (http.op = "tag-list" /\ http.status = 200) =>
          NameDescending(tags, http.results)
    /\ (http.op = "ingredient-list" /\ http.status = 200) =>
          NameDescending(ingredients, http.results)
    /\ (http.op = "nutrient-list" /\ http.status = 200) =>
          NameDescending(nutrients, http.results)

\* C15: the recipe list result is ordered by identifier descending, filtered or
\* not: of two recipes of a user the one created later comes first
C15_RecipesByIdDescending ==
    (http.op = "recipe-list" /\ http.status = 200) =>
        \A i, j \in 1..Len(http.results) :
            i < j => http.results[i] > http.results[j]

\* a list filtered by a tag answered with the two recipes of the user, and the
\* second created is the first listed
C15_Witness ==
    /\ http.op = "recipe-list" /\ http.status = 200
    /\ http.query.tags # {}
    /\ http.results = <<2, 1>>

MalformedNames(field) == \E i \in 1..Len(field.value) : field.value[i] = NoValue
MalformedNutrients(field) ==
    \E i \in 1..Len(field.value) : field.value[i].name = NoValue

\* C17: a recipe or ingredient write with a nested mapping that lacks its name
\* fails as a whole with 400: no row and no association is created, changed or
\* removed
C17_MalformedChildRejected ==
    [][/\ ((Handled(http', "recipe-create") \/ Handled(http', "recipe-update"))
            /\ (MalformedNames(http'.tags) \/ MalformedNames(http'.ingredients))) =>
              http'.status = 400 /\ UNCHANGED db
       /\ ((Handled(http', "ingredient-create") \/ Handled(http', "ingredient-update"))
            /\ MalformedNutrients(http'.nutrients)) =>
              http'.status = 400 /\ UNCHANGED db]_vars

\* C19: no update of a recipe, PUT or PATCH, with or without a `user` field in
\* its payload, changes the owner of a stored recipe
C19_UpdateKeepsOwner ==
    [][http'.op = "recipe-update" =>
          \A r \in DOMAIN recipes :
              r \in DOMAIN recipes' /\ recipes'[r].user = recipes[r].user]_vars

\* a recipe update that named another user as `user` was answered 200, and the
\* recipe still belongs to the requester
C19_Witness ==
    /\ http.op = "recipe-update" /\ http.status = 200
    /\ http.user \in Users \ {http.tok}
    /\ recipes[http.id].user = http.tok

\* the children in the order the reconciler processed the mappings of a list:
\* the row each mapping resolved to, a row that was already added left out
Processed(kws, after) ==
    Distinct([i \in 1..Len(kws) |-> CHOOSE c \in Filter(after, kws[i]) : TRUE])
ProcessedNames(user, field, after) ==
    Processed([i \in 1..Len(field.value) |-> NameKeywords(user, field.value[i])], after)
ProcessedNutrients(user, field, after) ==
    Processed([i \in 1..Len(field.value) |-> NutrientKeywords(user, field.value[i])],
              after)

\* C18: the response to a write lists the parent's associations in the order in
\* which the reconciler processed the payload's mappings, whether a mapping was
\* resolved to a new row or to a row stored before
C18_ReturnedInProcessedOrder ==
    [][/\ (http'.op \in {"recipe-create", "recipe-update"}
            /\ http'.status \in {200, 201}) =>
              /\ http'.tags.present =>
                    http'.returned.tags = ProcessedNames(http'.tok, http'.tags, tags')
              /\ http'.ingredients.present =>
                    http'.returned.ingredients
                        = ProcessedNames(http'.tok, http'.ingredients, ingredients')
       /\ (http'.op \in {"ingredient-create", "ingredient-update"}
            /\ http'.status \in {200, 201}) =>
              (http'.nutrients.present =>
                  http'.returned.nutrients
                      = ProcessedNutrients(http'.tok, http'.nutrients, nutrients'))]_vars

\* a stored user is the user that registering with (email, password) creates:
\* the registration is accepted and writes that row
CreatedWith(id, email, password) ==
    LET validated_data == UserSerializer_validated_data(email, password, "n1")
    IN  /\ validated_data.email # <<>> /\ EmailValidator(validated_data.email)
        /\ Len(validated_data.password) >= UserSerializer_password_min_length
        /\ users[id].email = UserSerializer_create(validated_data).row.email
        /\ users[id].password = UserSerializer_create(validated_data).row.password

\* C20: once a user was created with a valid (email, password), a token request
\* with the same email and password is answered 200 with a token, and a token
\* request with that email and another or a blank password is answered 400
\* without a token
C20_TokenForCreatedUser ==
    [][http'.op = "user-token" =>
          \A id \in DOMAIN users :
              /\ CreatedWith(id, http'.email, http'.password) =>
                    http'.status = 200 /\ http'.token # 0
              /\ (\E password \in Passwords \ {http'.password} :
                      CreatedWith(id, http'.email, password)) =>
                    http'.status = 400 /\ http'.token = 0]_vars

\* C21: the email stored for a created user is the email of the request with
\* the part after its last "@" lower-cased and the part before it as it was sent
\* (blanks around the email are not part of it)
C21_StoredEmailNormalized ==
    [][(http'.op = "user-create" /\ http'.status = 201) =>
          LET sent == Strip(http'.email)
              stored == users'[http'.id].email
          IN  /\ Len(stored) = Len(sent)
              /\ \A i \in 1..Len(sent) :
                    stored[i] = IF i > LastAt(sent) THEN Lower(sent[i]) ELSE sent[i]]_vars

\* a user was registered with an upper-case local part and domain
C21_Witness ==
    /\ http.op = "user-create" /\ http.status = 201
    /\ http.email = <<"A", "@", "X">>
    /\ users[http.id].email = <<"A", "@", "x">>

\* the stored users that hold the email of a request: emails are unique as
\* stored, that is with the domain lower-cased
HoldersOf(email) == Filter(users, [email |-> normalize_email(Strip(email))])

\* C22: a registration with an email that a stored user already holds is
\* answered 400, and the User table is left as it was: the holder's row is
\* unchanged and no row is added
C22_DuplicateEmailRejected ==
    [][(http'.op = "user-create" /\ HoldersOf(http'.email) # {}) =>
          http'.status = 400 /\ users' = users]_vars

\* C23: a registration whose password has fewer than 5 characters is answered
\* 400 and writes nothing: an email that no user held before is held by no
\* user afterwards
C23_ShortPasswordRejected ==
    [][(http'.op = "user-create" /\ Len(http'.password) < 5) =>
          /\ http'.status = 400
          /\ users' = users
          /\ HoldersOf(http'.email) = {} =>
                Filter(users', [email |-> normalize_email(Strip(http'.email))]) = {}]_vars

\* a registration was refused for its password alone
C23_Witness ==
    /\ http.op = "user-create" /\ http.status = 400
    /\ http.password = <<"p", "w">>
    /\ http.email = <<"a", "@", "x">> /\ http.name = "n1"
    /\ HoldersOf(http.email) = {}

\* C24: a PATCH of the self-profile by an authenticated user with a new name
\* and a new password is answered 200, stores the name, and stores the
\* password hashed: not as it was sent, and such that the new password checks
\* against the stored one
C24_ProfileUpdateHashesPassword ==
    [][(/\ http'.op = "user-me-patch"
        /\ http'.bearer \in authtoken
        /\ http'.fields = {"name", "password"}
        /\ Len(Strip(http'.password)) >= 5) =>
          /\ http'.status = 200
          /\ users'[http'.bearer].name = http'.name
          /\ users'[http'.bearer].password # Strip(http'.password)
          /\ check_password(Strip(http'.password), users'[http'.bearer].password)]_vars

\* ext is the extension of filename: its tail from a dot on, with no dot or
\* separator after that dot and a character other than a dot before it in the
\* same path component; empty only when filename has no such dot
IsExtensionOf(ext, filename) ==
    LET n == Len(filename)
        dots == {d \in 1..n :
                    /\ filename[d] = "."
                    /\ \A k \in (d + 1)..n : filename[k] \notin {".", "/"}
                    /\ \E k \in 1..(d - 1) :
                          /\ filename[k] # "."
                          /\ \A j \in k..d : filename[j] # "/"}
    IN  IF dots = {} THEN ext = <<>>
        ELSE \E d \in dots : ext = SubSeq(filename, d, n)

\* the path is uploads/<directory>/<generated name><ext>
WellFormedPath(image) ==
    \E ext \in {SubSeq(image.filename, k, Len(image.filename)) :
                   k \in 1..(Len(image.filename) + 1)} :
        /\ IsExtensionOf(ext, image.filename)
        /\ image.path = <<"uploads", "/", image.to, "/", image.uuid>> \o ext

\* the path does not depend on the row the image is uploaded for
SameForEveryInstance ==
    \A i, j \in DOMAIN images :
        (/\ images[i].to = images[j].to
         /\ images[i].filename = images[j].filename
         /\ images[i].uuid = images[j].uuid) => images[i].path = images[j].path

\* C25: every generated path is uploads/recipe/<generated name><ext> or
\* uploads/ingredient/<generated name><ext>, <ext> the extension of the original
\* file name, whatever the row; and no two uploads receive the same path
C25_ImagePathsNeverRepeat ==
    /\ \A i \in DOMAIN images : WellFormedPath(images[i])
    /\ SameForEveryInstance
    /\ \A i, j \in DOMAIN images : i # j => images[i].path # images[j].path

\* C25 as amended: the same, and two uploads receive the same path only when
\* uuid4 returned the same value for both
C25_ImagePathsRepeatOnlyWithUuid ==
    /\ \A i \in DOMAIN images : WellFormedPath(images[i])
    /\ SameForEveryInstance
    /\ \A i, j \in DOMAIN images :
          images[i].path = images[j].path => images[i].uuid = images[j].uuid

\* a recipe image and an ingredient image were given paths, one file name with
\* an extension and one without
C25_Witness ==
    /\ Len(images) = 2
    /\ images[1].to = "recipe" /\ images[1].filename = <<"a", ".", "b", ".", "j">>
    /\ images[1].path = <<"uploads", "/", "recipe", "/", "uuid-1", ".", "j">>
    /\ images[2].to = "ingredient" /\ images[2].filename = <<"a">>
    /\ images[2].path = <<"uploads", "/", "ingredient", "/", "uuid-2">>

\* no two rows of the table have the same owner and the same name
UniquePerUser(table) ==
    \A i, j \in DOMAIN table :
        (table[i].user = table[j].user /\ table[i].name = table[j].name) => i = j

\* C26: in every reachable state no user owns two tags, two ingredients or two
\* nutrients of the same name
C26_NamesUniquePerUser ==
    UniquePerUser(tags) /\ UniquePerUser(ingredients) /\ UniquePerUser(nutrients)

\* every mapping of the list has its name
NamesGiven(field) == \A i \in 1..Len(field.value) : field.value[i] # NoValue
\* every mapping of the list matches exactly one row of the user
ResolvedToOneRow(user, field, table) ==
    \A i \in 1..Len(field.value) :
        Cardinality(Filter(table, NameKeywords(user, field.value[i]))) = 1

\* C27: a recipe create, or an update of one of the user's recipes, by an
\* authenticated user with valid nested mappings succeeds, and each mapping is
\* resolved to exactly one row of that user
C27_ReconcilerResolvesOneRow ==
    [][(/\ http'.op \in {"recipe-create", "recipe-update"}
        /\ IsAuthenticated(http'.tok)
        /\ http'.op = "recipe-update" =>
              http'.id \in Rows(RecipeViewSet_get_queryset(http'.tok, {}, {}))
        /\ NamesGiven(http'.tags) /\ NamesGiven(http'.ingredients)) =>
          /\ http'.status \in {200, 201}
          /\ ResolvedToOneRow(http'.tok, http'.tags, tags')
          /\ ResolvedToOneRow(http'.tok, http'.ingredients, ingredients')]_vars

\* every associated child has the owner of its parent
SameOwner(relation, parents, children) ==
    \A pair \in relation :
        (pair[1] \in DOMAIN parents /\ pair[2] \in DOMAIN children) =>
            children[pair[2]].user = parents[pair[1]].user

\* the user reconciles names of which only other users hold a row: for each a
\* new row of the user is stored and attached to the parent, and the rows of
\* the other users are neither attached nor changed
OwnRowAttached(user, parent, names, table, relation, tableAfter, relationAfter) ==
    \A i \in 1..Len(names) :
        LET others == Filter(table, [name |-> names[i]]) IN
        (/\ names[i] # NoValue
         /\ others # {}
         /\ Filter(table, [user |-> user, name |-> names[i]]) = {}) =>
            /\ \E c \in DOMAIN tableAfter \ DOMAIN table :
                  /\ tableAfter[c].user = user /\ tableAfter[c].name = names[i]
                  /\ <<parent, c>> \in relationAfter
            /\ \A o \in others :
                  /\ o \in DOMAIN tableAfter /\ tableAfter[o] = table[o]
                  /\ <<parent, o>> \notin relationAfter

\* C28: every tag and ingredient of a recipe has the recipe's owner and every
\* nutrient of an ingredient the ingredient's owner; a user who reconciles a
\* name that only another user holds gets a new row of their own attached, the
\* other user's row being neither attached nor changed
C28_NoCrossUserAssociation ==
    /\ [](/\ SameOwner(recipeTags, recipes, tags)
          /\ SameOwner(recipeIngredients, recipes, ingredients)
          /\ SameOwner(ingredientNutrients, ingredients, nutrients))
    /\ [][(http'.op \in {"recipe-create", "recipe-update"}
            /\ http'.status \in {200, 201}) =>
              LET parent == CHOOSE r \in http'.data : TRUE IN
              /\ http'.tags.present =>
                    OwnRowAttached(http'.tok, parent, http'.tags.value,
                                   tags, recipeTags, tags', recipeTags')
              /\ http'.ingredients.present =>
                    OwnRowAttached(http'.tok, parent, http'.ingredients.value,
                                   ingredients, recipeIngredients,
                                   ingredients', recipeIngredients')]_vars
    /\ [][(http'.op \in {"ingredient-create", "ingredient-update"}
            /\ http'.status \in {200, 201} /\ http'.nutrients.present) =>
              LET parent == CHOOSE r \in http'.data : TRUE IN
              OwnRowAttached(http'.tok, parent,
                             [i \in 1..Len(http'.nutrients.value) |->
                                 http'.nutrients.value[i].name],
                             nutrients, ingredientNutrients,
                             nutrients', ingredientNutrients')]_vars

\* u2 created a recipe with tag a while only u1 held a tag a: u2 has a tag a of
\* their own, attached to the recipe
C28_Witness ==
    /\ http.op = "recipe-create" /\ http.status = 201 /\ http.tok = "u2"
    /\ http.tags = Given(<<"a">>)
    /\ 1 \in DOMAIN tags /\ tags[1] = [user |-> "u1", name |-> "a"]
    /\ 2 \in DOMAIN tags /\ tags[2] = [user |-> "u2", name |-> "a"]
    /\ \E r \in DOMAIN recipes : recipes[r].user = "u2" /\ Related(recipeTags, r) = {2}
    /\ \E r \in DOMAIN recipes : recipes[r].user = "u1" /\ Related(recipeTags, r) = {1}

\* two requests of one user reconcile one name and both missed the lookup
BothMissed(v, w) ==
    /\ v # w
    /\ workers[v].pc = "done" /\ workers[w].pc = "done"
    /\ workers[v].missed /\ workers[w].missed
    /\ workers[v].user = workers[w].user /\ workers[v].name = workers[w].name

\* C29: when two concurrent requests of one user reconcile one name and both
\* miss the lookup, both insert: once both are done the user holds two tags of
\* that name, one attached to each recipe, whatever else the program did
C29_BothMissBothInsert ==
    \A v, w \in Workers :
        BothMissed(v, w) =>
            \E s, t \in DOMAIN tags :
                /\ s # t
                /\ tags[s] = [user |-> workers[v].user, name |-> workers[v].name]
                /\ tags[t] = tags[s]
                /\ <<workers[v].recipe, s>> \in recipeTags
                /\ <<workers[w].recipe, t>> \in recipeTags

\* both workers missed the lookup of tag a of u1 and both inserted it
C29_Witness ==
    /\ BothMissed("w1", "w2")
    /\ workers["w1"].user = "u1" /\ workers["w1"].name = "a"
    /\ ~UniquePerUser(tags)

\* the email of the request is a stored email but for the case of the letters
\* of its domain
DiffersInDomainCase(email, stored) ==
    /\ Strip(email) # stored
    /\ EmailValidator(Strip(email))
    /\ normalize_email(Strip(email)) = stored

\* C30: no two stored users have the same stored email, and a registration
\* whose email is a stored email but for the case of its domain is answered 400
C30_EmailUniqueAndCaseRejected ==
    /\ [](\A i, j \in DOMAIN users : users[i].email = users[j].email => i = j)
    /\ [][(/\ http'.op = "user-create"
           /\ \E id \in DOMAIN users : DiffersInDomainCase(http'.email, users[id].email)) =>
             http'.status = 400]_vars

============================================================================
